---- MODULE Spec2Model ----
(***************************************************************************)
(* Tab/view lifecycle manager of the browser shell (class Browser, class   *)
(* Tab, and the IPC handlers that drive them).                             *)
(*                                                                         *)
(* The host process is single threaded: a handler runs synchronously until *)
(* it awaits the renderer's answer to executeJavaScript (the geometry      *)
(* query).  `cur` is the call that is executing right now, `susp` the      *)
(* calls suspended on a geometry query.  A call advances one source        *)
(* statement group per step, so the intermediate states of a switch are    *)
(* states of the model; no other handler can start while `cur` is running. *)
(*                                                                         *)
(* Spec follows the manager next to a renderer that reports and answers    *)
(* geometry, with Math.random() never repeating.  IdSpec draws the ids as  *)
(* the Tab constructor does, EventSpec adds the events of the Tabs'        *)
(* surfaces; both run next to a renderer that exposes no geometry.         *)
(* BridgeSpec is Spec driven through the create-tab handler only, which    *)
(* always activates.  SidebarSpec adds the sidebar's copy of the tab list  *)
(* and its event listeners, SettingsSpec the settings window.              *)
(***************************************************************************)
EXTENDS Integers, Sequences, FiniteSets, TLC

\* ---------------------------------------------------------------- bounds
MaxTabs == 3        \* Tabs ever created in one run
MaxSuspended == 2   \* calls suspended on a geometry query at the same time
MaxDigits == 1      \* base-36 digits of a value drawn from Math.random()
MaxListeners == 3   \* listeners counted per forwarded event
MaxWindows == 6     \* settings windows ever created in one run

\* ---------------------------------------------------------------- values
Null == 0                          \* null Tab / null id
TabIds == 1..MaxTabs

Rect(x, y, w, h) == [x |-> x, y |-> y, width |-> w, height |-> h]
NullBounds == [null |-> TRUE]      \* a null rectangle reference

\* rectangles the renderer can report for the web-content-view element
UiRects == {Rect(0, 0, 800, 600), Rect(256, 0, 768, 720)}

\* mainWindow.getContentBounds(): the host window's content rectangle
ContentBounds == Rect(40, 30, 1024, 720)

\* what executeJavaScript(script, true) can produce: a thrown/rejected
\* error, null (the function is not exposed, or returns null), or an object
\* some of whose fields are not numbers
FieldNames == {"x", "y", "width", "height"}
ProviderReplies ==
    {[kind |-> "throw", val |-> NullBounds, nonNumeric |-> {}],
     [kind |-> "value", val |-> NullBounds, nonNumeric |-> {}]}
    \cup {[kind |-> "value", val |-> r, nonNumeric |-> {}] : r \in UiRects}
    \cup {[kind |-> "value", val |-> Rect(0, 0, 800, 600), nonNumeric |-> {f}] :
             f \in {"x", "height"}}

\* ---------------------------------------------------------------- ids
\* a value of Math.random(), written as the digits of its base-36
\* expansion after "0."; Fraction(0) is the value 0
Fraction(n) == [i \in 1..n |-> "a"]
RandomValues == {Fraction(n) : n \in 0..MaxDigits}

\* Number.prototype.toString(36) of a value in [0, 1)
ToString36(r) == IF r = <<>> THEN <<"0">> ELSE <<"0", ".">> \o r

\* String.prototype.substring(start, end)
Substring(str, start, end) ==
    SubSeq(str, start + 1, IF end < Len(str) THEN end ELSE Len(str))

\* Tab.constructor: this.id, from two draws of Math.random()
NewTabId(r1, r2) ==
    Substring(ToString36(r1), 2, 15) \o Substring(ToString36(r2), 2, 15)

\* the id field of a Tab that is not constructed yet
NoId == <<"-">>

\* ---------------------------------------------------------------- events
Evt(name, id) == [name |-> name, id |-> id]
TabsUpdated == Evt("tabs-updated", Null)
ActiveTabChanged(id) == Evt("active-tab-changed", id)
TabInfoUpdated(id) == Evt("tab-info-updated", id)

\* the events ipc.ts forwards to the renderer
ForwardedEvents == {"tabs-updated", "active-tab-changed", "tab-info-updated"}

VARIABLES
    tabs,             \* Browser.tabs: sequence of Tab ids, in collection order
    currentTab,       \* Browser.currentTab: id of the Tab, or Null
    lastKnownBounds,  \* Browser.lastKnownBounds: a rectangle or NullBounds
    attached,         \* mainWindow's BrowserViews, each named by its Tab's id
    viewBounds,       \* the rectangle of every Tab's BrowserView
    nextId,           \* number of Tabs constructed so far, plus one
    cur,              \* the call executing synchronously, or NoCall
    susp,             \* calls awaiting the renderer's geometry answer
    favicon,          \* Tab.favicon of every Tab: TRUE once an icon is stored
    lastReport,       \* the rectangle of the latest update-webview-bounds that
                      \* found a Tab active; NullBounds if the latest found none
    idOf,             \* Tab.id of every Tab constructed so far
    sidebar,          \* the Sidebar component: its tabs and activeTabId state,
                      \* whether a fetchTabsAndActive is under way, and the
                      \* listeners registered on the three forwarded events
    settingsWindow,   \* index.ts settingsWindow: a window, or Null
    windows           \* the settings BrowserWindows ever created, by number

vars == <<tabs, currentTab, lastKnownBounds, attached, viewBounds, nextId, cur, susp,
          favicon, lastReport, idOf, sidebar, settingsWindow, windows>>

\* the state outside the Tab manager
uiVars == <<sidebar, settingsWindow, windows>>

\* ---------------------------------------------------------------- Sidebar
\* the Sidebar after its first render: empty state, the effect has run
\* once, registered one listener per event and started its first fetch
SidebarMounted ==
    [tabs |-> <<>>, activeTabId |-> Null, fetching |-> "all",
     listeners |-> [e \in ForwardedEvents |-> 1]]

\* ---------------------------------------------------------------- windows
WindowIds == 1..MaxWindows

\* a BrowserWindow not constructed yet, one just constructed by
\* createSettingsWindow (show: false), and one that was closed
NoWindow == [status |-> "none", shown |-> FALSE, minimized |-> FALSE,
             maximized |-> FALSE, focused |-> FALSE, closing |-> FALSE]
NewWindow == [NoWindow EXCEPT !.status = "live"]
DestroyedWindow == [NoWindow EXCEPT !.status = "destroyed"]

\* ---------------------------------------------------------------- calls
NoCall == [op |-> "none"]

\* the manager's state as a call finds it when it is invoked; a call keeps
\* it for as long as it runs synchronously
NoSnapshot == [tabs |-> <<>>, currentTab |-> Null,
               lastKnownBounds |-> NullBounds, attached |-> {}]
Snapshot == [tabs |-> tabs, currentTab |-> currentTab,
             lastKnownBounds |-> lastKnownBounds, attached |-> attached]

\* whether a Tab with this id is in the collection
InCollection(id) == \E i \in 1..Len(tabs) : tabs[i] = id

\* no answer of the Geometry Provider received
NoReply == [kind |-> "none", val |-> NullBounds, nonNumeric |-> {}]

\* a freshly invoked call: op is the method, tabId its argument (Null for
\* createTab until the Tab is constructed), b its local initialBounds /
\* boundsToSet, out the events it has emitted, awaits the places where it
\* has awaited a geometry query, reply the latest answer it got, pre the
\* state at invocation; known and wasVisible tell whether its argument
\* named a Tab of the collection, and the visible Tab, then; reported is
\* the latest bounds report at that time
NewCall(op, pc, tabId, activate) ==
    [op |-> op, pc |-> pc, tabId |-> tabId, activate |-> activate,
     b |-> NullBounds, out |-> <<>>, awaits |-> {}, reply |-> NoReply,
     known |-> InCollection(tabId),
     wasVisible |-> (currentTab # Null /\ currentTab = tabId),
     reported |-> lastReport, pre |-> Snapshot]

Running == cur # NoCall
Finished == Running /\ cur.pc \in {"done", "fault"}

\* ---------------------------------------------------------------- helpers
\* a lookup that falls back to the first Tab when the id is absent
FindIndex_DefaultFirst(seq, id) ==
    IF \E i \in 1..Len(seq) : seq[i] = id
    THEN CHOOSE i \in 1..Len(seq) : seq[i] = id /\ \A j \in 1..(i - 1) : seq[j] # id
    ELSE IF Len(seq) > 0 THEN 1 ELSE 0

\* Array.prototype.findIndex over tabs by id; 0 when absent
FindIndex(seq, id) ==
    IF \E i \in 1..Len(seq) : seq[i] = id
    THEN CHOOSE i \in 1..Len(seq) : seq[i] = id /\ \A j \in 1..(i - 1) : seq[j] # id
    ELSE 0

\* a removal that moves the last element into the hole
Splice_SwapLast(seq, index) ==
    [i \in 1..(Len(seq) - 1) |-> IF i = index THEN seq[Len(seq)] ELSE seq[i]]

\* Array.prototype.splice(index, 1)
Splice(seq, index) ==
    [i \in 1..(Len(seq) - 1) |-> IF i < index THEN seq[i] ELSE seq[i + 1]]

\* the validity test of getInitialBoundsFromRenderer on the query's answer
ValidBounds(reply) ==
    /\ reply.kind = "value"
    /\ reply.val # NullBounds
    /\ \A f \in FieldNames : f \notin reply.nonNumeric

\* { x: 0, y: 0, width: content.width, height: content.height }
ContentFallback == Rect(0, 0, ContentBounds.width, ContentBounds.height)

\* a fallback that is taken even when bounds are at hand
OrContentBounds_Always(b) == ContentFallback

\* if (!bounds) take the window's content rectangle, else keep bounds
OrContentBounds(b) == IF b = NullBounds THEN ContentFallback ELSE b

\* mainWindow.removeBrowserView / addBrowserView
RemoveBrowserView(views, v) == views \ {v}
AddBrowserView(views, v) == views \cup {v}

Init ==
    /\ tabs = <<>>
    /\ currentTab = Null
    /\ lastKnownBounds = NullBounds
    /\ attached = {}
    /\ viewBounds = [t \in TabIds |-> NullBounds]
    /\ nextId = 1
    /\ cur = NoCall
    \* app.whenReady: browser.initialize() is awaiting its geometry query
    \* while the IPC handlers are already registered
    /\ susp = <<[op |-> "initialize", pc |-> "init_await", tabId |-> Null,
                 activate |-> FALSE, b |-> NullBounds, out |-> <<>>,
                 awaits |-> {"init_await"}, reply |-> NoReply, known |-> FALSE,
                 wasVisible |-> FALSE, reported |-> NullBounds,
                 pre |-> NoSnapshot]>>
    /\ favicon = [t \in TabIds |-> FALSE]
    /\ lastReport = NullBounds
    /\ idOf = [t \in TabIds |-> NoId]
    /\ sidebar = SidebarMounted
    /\ settingsWindow = Null
    /\ windows = [w \in WindowIds |-> NoWindow]


\* ------------------------------------------------------ dispatch of calls
\* createTab calls that have not constructed their Tab yet
PendingCreates ==
    Cardinality({i \in 1..Len(susp) : susp[i].op = "createTab" /\ susp[i].tabId = Null})

\* createTab(url, activate, userAgent) is invoked (ipc create-tab, the
\* window-open handler of a Tab, or a direct caller)
CallCreateTab(activate) ==
    /\ ~Running
    /\ nextId + PendingCreates <= MaxTabs
    /\ Len(susp) < MaxSuspended
    /\ cur' = NewCall("createTab", "ct_bounds", Null, activate)
    /\ UNCHANGED <<tabs, currentTab, lastKnownBounds, attached, viewBounds, nextId, susp, favicon, lastReport, idOf, uiVars>>

\* switchTab(tabId) is invoked (ipc switch-tab)
CallSwitchTab(tabId) ==
    /\ ~Running
    /\ Len(susp) < MaxSuspended
    /\ cur' = NewCall("switchTab", "sw_find", tabId, FALSE)
    /\ UNCHANGED <<tabs, currentTab, lastKnownBounds, attached, viewBounds, nextId, susp, favicon, lastReport, idOf, uiVars>>

\* closeTab(tabId) is invoked (ipc close-tab)
CallCloseTab(tabId) ==
    /\ ~Running
    /\ cur' = NewCall("closeTab", "cl_find", tabId, FALSE)
    /\ UNCHANGED <<tabs, currentTab, lastKnownBounds, attached, viewBounds, nextId, susp, favicon, lastReport, idOf, uiVars>>

\* the call has returned (or thrown) and the event loop is free again
Return ==
    /\ Finished
    /\ cur' = NoCall
    /\ UNCHANGED <<tabs, currentTab, lastKnownBounds, attached, viewBounds, nextId, susp, favicon, lastReport, idOf, uiVars>>

\* ------------------------------------------------------ geometry query
\* a suspension that announces the call's Tab before it awaits
Suspend_Announced(pc) ==
    /\ susp' = Append(susp, [cur EXCEPT !.pc = pc, !.awaits = @ \cup {pc},
                                         !.out = Append(@, ActiveTabChanged(cur.tabId)),
                                         !.pre = NoSnapshot, !.reply = NoReply,
                                         !.reported = NullBounds])
    /\ cur' = NoCall

\* the awaiting call cur suspends on executeJavaScript; what it knew of the
\* state at its invocation is out of date from here on
Suspend(pc) ==
    /\ susp' = Append(susp, [cur EXCEPT !.pc = pc, !.awaits = @ \cup {pc},
                                         !.pre = NoSnapshot, !.reply = NoReply,
                                         !.reported = NullBounds])
    /\ cur' = NoCall

\* where a suspended call continues once getInitialBoundsFromRenderer returns
ResumePc(pc) ==
    CASE pc = "init_await" -> "done"
      [] pc = "ct_await" -> "ct_new"
      [] pc = "sw_await" -> "sw_apply"

\* what getInitialBoundsFromRenderer returns for an answer
QueriedBounds(reply) == IF ValidBounds(reply) THEN reply.val ELSE NullBounds

\* a query that never stores its answer
CacheAfterAnswer_NotStored(cache, reply) == cache

\* lastKnownBounds once getInitialBoundsFromRenderer has seen the answer
CacheAfterAnswer(cache, reply) == IF ValidBounds(reply) THEN reply.val ELSE cache

\* getInitialBoundsFromRenderer, from the answer of executeJavaScript on:
\* a valid answer is cached and returned, anything else yields null
ProviderAnswer(i, reply) ==
    /\ ~Running
    /\ i \in 1..Len(susp)
    /\ LET c == susp[i]
       IN /\ lastKnownBounds' = CacheAfterAnswer(lastKnownBounds, reply)
          /\ cur' = [c EXCEPT !.b = QueriedBounds(reply), !.reply = reply,
                              !.pc = ResumePc(c.pc)]
          /\ susp' = [j \in 1..(Len(susp) - 1) |-> IF j < i THEN susp[j] ELSE susp[j + 1]]
    /\ UNCHANGED <<tabs, currentTab, attached, viewBounds, nextId, favicon, lastReport, idOf, uiVars>>

\* ------------------------------------------------------ createTab
\* let initialBounds = this.lastKnownBounds; if null, await the query
CreateTabBounds ==
    /\ Running /\ cur.pc = "ct_bounds"
    /\ IF lastKnownBounds # NullBounds
       THEN /\ cur' = [cur EXCEPT !.b = lastKnownBounds, !.pc = "ct_new"]
            /\ UNCHANGED susp
       ELSE Suspend("ct_await")
    /\ UNCHANGED <<tabs, currentTab, lastKnownBounds, attached, viewBounds, nextId, favicon, lastReport, idOf, uiVars>>

\* createTab that activates every new Tab
ShouldActivate_Always(activate) == TRUE

\* createTab that never activates the new Tab
ShouldActivate_Never(activate) == FALSE

\* if (activate) await this.switchTab(newTab.id)
ShouldActivate(activate) == activate

\* content-rectangle fallback, new Tab(...), tabs.push, registerTabListeners
CreateTabNew(r1, r2) ==
    /\ Running /\ cur.pc = "ct_new"
    /\ LET b == OrContentBounds(cur.b)
           id == nextId
       IN /\ viewBounds' = [viewBounds EXCEPT ![id] = b]
          /\ tabs' = Append(tabs, id)
          /\ idOf' = [idOf EXCEPT ![id] = NewTabId(r1, r2)]
          /\ nextId' = nextId + 1
          /\ cur' = [cur EXCEPT !.tabId = id, !.b = b,
                                !.pc = IF ShouldActivate(cur.activate)
                                       THEN "sw_find" ELSE "ct_emit"]
    /\ UNCHANGED <<currentTab, lastKnownBounds, attached, susp, favicon, lastReport, uiVars>>

\* this.events.emit('tabs-updated'); return newTab
CreateTabEmit ==
    /\ Running /\ cur.pc = "ct_emit"
    /\ cur' = [cur EXCEPT !.out = Append(@, TabsUpdated), !.pc = "done"]
    /\ UNCHANGED <<tabs, currentTab, lastKnownBounds, attached, viewBounds, nextId, susp, favicon, lastReport, idOf, uiVars>>

\* ------------------------------------------------------ switchTab
\* where control goes when switchTab returns: back into createTab, or out
AfterSwitch(c) == IF c.op = "createTab" THEN "ct_emit" ELSE "done"

\* DetachOld without the removal: the old view stays in the window
DetachOld_Skipped(views, current, tabId) == views

\* remove the current view if it exists and is different from the new tab
DetachOld(views, current, tabId) ==
    IF current # Null /\ current # tabId
    THEN RemoveBrowserView(views, current)
    ELSE views

\* tabs.find, then the removal of the old view
SwitchFind ==
    /\ Running /\ cur.pc = "sw_find"
    /\ IF FindIndex(tabs, cur.tabId) = 0
       THEN /\ cur' = [cur EXCEPT !.pc = AfterSwitch(cur)]
            /\ UNCHANGED attached
       ELSE /\ attached' = DetachOld(attached, currentTab, cur.tabId)
            /\ cur' = [cur EXCEPT !.pc = "sw_attach"]
    /\ UNCHANGED <<tabs, currentTab, lastKnownBounds, viewBounds, nextId, susp, favicon, lastReport, idOf, uiVars>>

\* AttachNew that attaches only on a change from another current Tab
AttachNew_OnlyOnChange(views, oldCurrentTabId, tabId) ==
    IF oldCurrentTabId # Null /\ oldCurrentTabId # tabId
    THEN AddBrowserView(views, tabId)
    ELSE views

\* add the new tab's view if the tab changed or the view is not present
AttachNew(views, oldCurrentTabId, tabId) ==
    IF oldCurrentTabId # tabId \/ tabId \notin views
    THEN AddBrowserView(views, tabId)
    ELSE views

\* this.currentTab = tabToActivate, then the addition of its view
SwitchAttach ==
    /\ Running /\ cur.pc = "sw_attach"
    /\ currentTab' = cur.tabId
    /\ attached' = AttachNew(attached, currentTab, cur.tabId)
    /\ cur' = [cur EXCEPT !.pc = "sw_bounds"]
    /\ UNCHANGED <<tabs, lastKnownBounds, viewBounds, nextId, susp, favicon, lastReport, idOf, uiVars>>

\* let boundsToSet = this.lastKnownBounds; if null, await the query
SwitchBounds ==
    /\ Running /\ cur.pc = "sw_bounds"
    /\ IF lastKnownBounds # NullBounds
       THEN /\ cur' = [cur EXCEPT !.b = lastKnownBounds, !.pc = "sw_apply"]
            /\ UNCHANGED susp
       ELSE Suspend("sw_await")
    /\ UNCHANGED <<tabs, currentTab, lastKnownBounds, attached, viewBounds, nextId, favicon, lastReport, idOf, uiVars>>

\* content-rectangle fallback, this.currentTab.setBounds (a TypeError when
\* currentTab is null), emit('active-tab-changed', tabId)
SwitchApply ==
    /\ Running /\ cur.pc = "sw_apply"
    /\ LET b == OrContentBounds(cur.b)
       IN IF currentTab = Null
          THEN /\ cur' = [cur EXCEPT !.b = b, !.pc = "fault"]
               /\ UNCHANGED viewBounds
          ELSE /\ viewBounds' = [viewBounds EXCEPT ![currentTab] = b]
               /\ cur' = [cur EXCEPT !.b = b,
                                     !.out = Append(@, ActiveTabChanged(cur.tabId)),
                                     !.pc = AfterSwitch(cur)]
    /\ UNCHANGED <<tabs, currentTab, lastKnownBounds, attached, nextId, susp, favicon, lastReport, idOf, uiVars>>


\* the geometry sequence of switchTab's activation path as a whole: from
\* the cache it reads and the answer its query gets (if it has to query) to
\* the rectangle it applies and the cache it leaves
SwitchGeometry(cache, reply) ==
    IF cache # NullBounds
    THEN [rect |-> OrContentBounds(cache), cache |-> cache]
    ELSE [rect |-> OrContentBounds(QueriedBounds(reply)),
          cache |-> CacheAfterAnswer(cache, reply)]

\* ------------------------------------------------------ closeTab
\* tabs.findIndex, then removeBrowserView(tabToClose.view)
CloseFind ==
    /\ Running /\ cur.pc = "cl_find"
    /\ IF FindIndex(tabs, cur.tabId) = 0
       THEN /\ cur' = [cur EXCEPT !.pc = "done"]
            /\ UNCHANGED attached
       ELSE /\ attached' = RemoveBrowserView(attached, cur.tabId)
            /\ cur' = [cur EXCEPT !.pc = "cl_splice"]
    /\ UNCHANGED <<tabs, currentTab, lastKnownBounds, viewBounds, nextId, susp, favicon, lastReport, idOf, uiVars>>

\* Replacement that promotes the last Tab of the collection
Replacement_Last(seq) == IF Len(seq) > 0 THEN seq[Len(seq)] ELSE Null

\* a close that promotes no Tab
Replacement_None(seq) == Null

\* Replacement that promotes the Tab constructed last, open or closed
Replacement_Newest(seq) == IF nextId > 1 THEN nextId - 1 ELSE Null

\* this.tabs.length > 0 ? this.tabs[0] : null
Replacement(seq) == IF Len(seq) > 0 THEN seq[1] ELSE Null

\* tabs.splice(index, 1); if the closed tab was current, pick the replacement
CloseSplice ==
    /\ Running /\ cur.pc = "cl_splice"
    /\ LET rest == Splice(tabs, FindIndex(tabs, cur.tabId))
       IN /\ tabs' = rest
          /\ IF currentTab = cur.tabId
             THEN /\ currentTab' = Replacement(rest)
                  /\ cur' = [cur EXCEPT !.pc = IF Replacement(rest) # Null
                                               THEN "cl_attach" ELSE "cl_emit"]
             ELSE /\ UNCHANGED currentTab
                  /\ cur' = [cur EXCEPT !.pc = "cl_emit"]
    /\ UNCHANGED <<lastKnownBounds, attached, viewBounds, nextId, susp, favicon, lastReport, idOf, uiVars>>

\* addBrowserView(this.currentTab.view), then setBounds from the cache or,
\* without a cache, from the window's content rectangle (no query here)
CloseAttach ==
    /\ Running /\ cur.pc = "cl_attach"
    /\ attached' = AddBrowserView(attached, currentTab)
    /\ LET b == OrContentBounds(lastKnownBounds)
       IN /\ viewBounds' = [viewBounds EXCEPT ![currentTab] = b]
          /\ cur' = [cur EXCEPT !.b = b, !.pc = "cl_emit"]
    /\ UNCHANGED <<tabs, currentTab, lastKnownBounds, nextId, susp, favicon, lastReport, idOf, uiVars>>

\* closeTab that announces the Tab list only
CloseEvents_ListOnly(current) == <<TabsUpdated>>

\* emit('tabs-updated'); emit('active-tab-changed', this.currentTab?.id || null)
CloseEvents(current) == <<TabsUpdated, ActiveTabChanged(current)>>

CloseEmit ==
    /\ Running /\ cur.pc = "cl_emit"
    /\ cur' = [cur EXCEPT !.out = @ \o CloseEvents(currentTab), !.pc = "done"]
    /\ UNCHANGED <<tabs, currentTab, lastKnownBounds, attached, viewBounds, nextId, susp, favicon, lastReport, idOf, uiVars>>

\* ------------------------------------------------------ update-webview-bounds
\* a handler that clears the cache when no Tab is current
BoundsCacheAfterReport_Reset(current, cache, r) == IF current # Null THEN r ELSE NullBounds

\* the cache after the handler has run with rectangle r
BoundsCacheAfterReport(current, cache, r) == IF current # Null THEN r ELSE cache

\* ipcMain.on('update-webview-bounds'): only with a current Tab does it
\* position the Tab and store the rectangle
UpdateWebviewBounds(r) ==
    /\ ~Running
    /\ viewBounds' = IF currentTab # Null
                     THEN [viewBounds EXCEPT ![currentTab] = r]
                     ELSE viewBounds
    /\ lastKnownBounds' = BoundsCacheAfterReport(currentTab, lastKnownBounds, r)
    /\ lastReport' = IF currentTab # Null THEN r ELSE NullBounds
    /\ cur' = [NewCall("update-webview-bounds", "done", Null, FALSE) EXCEPT !.b = r]
    /\ UNCHANGED <<tabs, currentTab, attached, nextId, susp, favicon, idOf, uiVars>>

\* ------------------------------------------------------ surface events
\* the events of a Tab's webContents that have a listener
SurfaceEvents ==
    {"did-navigate", "did-finish-load", "page-title-updated", "page-favicon-updated"}

\* lengths of the favicons array that page-favicon-updated can carry
IconCounts == {0, 1}

\* registerTabListeners: the events re-emitted as tab-info-updated
Listeners == {"did-navigate", "did-finish-load", "page-title-updated"}

\* the surfaces whose webContents can raise events: a surface, once
\* constructed, keeps its webContents and its listeners (closeTab only
\* removes the view from the window)
Emitting(t) == t \in 1..(nextId - 1)

\* one event of Tab t's surface, page-favicon-updated carrying `icons`
\* icon URLs: the Browser's listener emits tab-info-updated, the Tab's own
\* listener stores the first icon
SurfaceEvent(t, kind, icons) ==
    /\ ~Running
    /\ Emitting(t)
    /\ favicon' = IF kind = "page-favicon-updated" /\ icons > 0
                  THEN [favicon EXCEPT ![t] = TRUE]
                  ELSE favicon
    /\ cur' = [NewCall(kind, "done", t, FALSE) EXCEPT
                  !.out = IF kind \in Listeners THEN <<TabInfoUpdated(t)>> ELSE <<>>]
    /\ UNCHANGED <<tabs, currentTab, lastKnownBounds, attached, viewBounds, nextId, susp, lastReport, idOf, uiVars>>

\* ------------------------------------------------------ accessors
\* getTabs(): the projection of the collection, in collection order
GetTabs == [i \in 1..Len(tabs) |-> [id |-> tabs[i], favicon |-> favicon[tabs[i]]]]

\* getActiveTabId()
GetActiveTabId == IF currentTab # Null THEN currentTab ELSE Null

\* ------------------------------------------------------ specification
Next ==
    \/ \E activate \in BOOLEAN : CallCreateTab(activate)
    \/ \E id \in TabIds : CallSwitchTab(id)
    \/ \E id \in TabIds : CallCloseTab(id)
    \/ \E r \in UiRects : UpdateWebviewBounds(r)
    \/ \E i \in 1..MaxSuspended, reply \in ProviderReplies : ProviderAnswer(i, reply)
    \/ CreateTabBounds
    \* Math.random() never repeating: the n-th Tab draws the n-th value
    \/ CreateTabNew(Fraction(nextId), Fraction(0))
    \/ CreateTabEmit
    \/ SwitchFind
    \/ SwitchAttach
    \/ SwitchBounds
    \/ SwitchApply
    \/ CloseFind
    \/ CloseSplice
    \/ CloseAttach
    \/ CloseEmit
    \/ Return

Spec == Init /\ [][Next]_vars

\* ------------------------------------------------------ Bridge commands
\* the manager driven by the IPC handlers alone: create-tab (and the
\* window-open handler of a Tab) always call createTab with activate = true
BridgeNext ==
    \/ CallCreateTab(TRUE)
    \/ \E id \in TabIds : CallSwitchTab(id)
    \/ \E id \in TabIds : CallCloseTab(id)
    \/ \E r \in UiRects : UpdateWebviewBounds(r)
    \/ \E i \in 1..MaxSuspended, reply \in ProviderReplies : ProviderAnswer(i, reply)
    \/ CreateTabBounds
    \/ CreateTabNew(Fraction(nextId), Fraction(0))
    \/ CreateTabEmit
    \/ SwitchFind
    \/ SwitchAttach
    \/ SwitchBounds
    \/ SwitchApply
    \/ CloseFind
    \/ CloseSplice
    \/ CloseAttach
    \/ CloseEmit
    \/ Return

BridgeSpec == Init /\ [][BridgeNext]_vars

\* ------------------------------------------------------ Tab lifetime
\* answers of a renderer that does not expose the geometry function
HiddenProvider == {[kind |-> "value", val |-> NullBounds, nonNumeric |-> {}]}

\* the manager with its ids as Math.random() draws them, next to a
\* renderer that never reports geometry
IdNext ==
    \/ \E activate \in BOOLEAN : CallCreateTab(activate)
    \/ \E id \in TabIds : CallSwitchTab(id)
    \/ \E id \in TabIds : CallCloseTab(id)
    \/ \E i \in 1..MaxSuspended, reply \in HiddenProvider : ProviderAnswer(i, reply)
    \/ CreateTabBounds
    \/ \E r1, r2 \in RandomValues : CreateTabNew(r1, r2)
    \/ CreateTabEmit
    \/ SwitchFind
    \/ SwitchAttach
    \/ SwitchBounds
    \/ SwitchApply
    \/ CloseFind
    \/ CloseSplice
    \/ CloseAttach
    \/ CloseEmit
    \/ Return

IdSpec == Init /\ [][IdNext]_vars

\* the manager with the events of its Tabs' surfaces, next to a renderer
\* that never reports geometry
EventNext ==
    \/ \E activate \in BOOLEAN : CallCreateTab(activate)
    \/ \E id \in TabIds : CallSwitchTab(id)
    \/ \E id \in TabIds : CallCloseTab(id)
    \/ \E t \in TabIds, kind \in SurfaceEvents, icons \in IconCounts :
           SurfaceEvent(t, kind, icons)
    \/ \E i \in 1..MaxSuspended, reply \in HiddenProvider : ProviderAnswer(i, reply)
    \/ CreateTabBounds
    \/ CreateTabNew(Fraction(nextId), Fraction(0))
    \/ CreateTabEmit
    \/ SwitchFind
    \/ SwitchAttach
    \/ SwitchBounds
    \/ SwitchApply
    \/ CloseFind
    \/ CloseSplice
    \/ CloseAttach
    \/ CloseEmit
    \/ Return

EventSpec == Init /\ [][EventNext]_vars

TypeOK ==
    /\ tabs \in Seq(TabIds)
    /\ currentTab \in TabIds \cup {Null}
    /\ attached \subseteq TabIds
    /\ nextId \in 1..(MaxTabs + 1)
    /\ Len(susp) <= MaxSuspended


\* ------------------------------------------------------ Sidebar
\* one more listener on an event, counted up to MaxListeners
Registered(n) == IF n < MaxListeners THEN n + 1 ELSE n

\* the effect's cleanup: removeListener(channel, handler).  On
\* active-tab-changed and tab-info-updated the preload registered a wrapper
\* around the handler, so nothing is removed; on tabs-updated it registered
\* the handler itself, which is removed when the function passed to
\* removeListener is the function that was passed to on (`removable`: it
\* is with contextIsolation off, the contextBridge decides otherwise)
AfterCleanup(listeners, removable) ==
    [e \in ForwardedEvents |->
        IF e = "tabs-updated" /\ removable THEN listeners[e] - 1 ELSE listeners[e]]

\* the effect runs again: cleanup, the first fetch, three registrations
EffectRerun(sb, removable) ==
    [sb EXCEPT !.fetching = "all",
               !.listeners = [e \in ForwardedEvents |->
                                 Registered(AfterCleanup(sb.listeners, removable)[e])]]

\* setActiveTabId(id): a changed activeTabId re-runs the effect
SetActiveTabId(sb, id, removable) ==
    IF sb.activeTabId = id
    THEN sb
    ELSE EffectRerun([sb EXCEPT !.activeTabId = id], removable)

\* handleTabsUpdated, handleActiveTabChanged, handleTabInfoUpdated
HandleEvent(sb, evt, removable) ==
    CASE evt.name = "tabs-updated" -> [sb EXCEPT !.fetching = "all"]
      [] evt.name = "active-tab-changed" -> SetActiveTabId(sb, evt.id, removable)
      [] evt.name = "tab-info-updated" ->
            [sb EXCEPT !.fetching = IF @ = "all" THEN "all" ELSE "tabs"]

RECURSIVE HandleEvents(_, _, _)
HandleEvents(sb, evts, removable) ==
    IF evts = <<>>
    THEN sb
    ELSE HandleEvents(HandleEvent(sb, Head(evts), removable), Tail(evts), removable)

\* the call returns and the events it emitted, forwarded by ipc.ts, are
\* handled by the Sidebar
Deliver(removable) ==
    /\ Finished
    /\ cur' = NoCall
    /\ sidebar' = HandleEvents(sidebar, cur.out, removable)
    /\ UNCHANGED <<tabs, currentTab, lastKnownBounds, attached, viewBounds, nextId, susp,
                   favicon, lastReport, idOf, settingsWindow, windows>>

\* the answers to get-tabs and get-active-tab-id arrive: setTabs, and
\* setActiveTabId when the fetch was fetchTabsAndActive
UiFetch(removable) ==
    /\ ~Running
    /\ sidebar.fetching # "none"
    /\ LET got == [sidebar EXCEPT !.tabs = [i \in 1..Len(GetTabs) |-> GetTabs[i].id],
                                  !.fetching = "none"]
       IN sidebar' = IF sidebar.fetching = "all"
                     THEN SetActiveTabId(got, GetActiveTabId, removable)
                     ELSE got
    /\ UNCHANGED <<tabs, currentTab, lastKnownBounds, attached, viewBounds, nextId, cur,
                   susp, favicon, lastReport, idOf, settingsWindow, windows>>

\* whether the Sidebar lists a Tab with this id
Listed(id) == \E i \in 1..Len(sidebar.tabs) : sidebar.tabs[i] = id

\* handleNewTab: window.api.createTab('about:blank', userAgent)
SidebarNewTab == CallCreateTab(TRUE)

\* handleTabClick on a listed Tab
SidebarTabClick(id) == Listed(id) /\ CallSwitchTab(id)

\* handleCloseTab's guard: if (tabs.length === 1) return
MayClose(uiTabs) == Len(uiTabs) # 1

\* handleCloseTab on a listed Tab
SidebarCloseTab(id) == Listed(id) /\ MayClose(sidebar.tabs) /\ CallCloseTab(id)

\* the manager driven by the Sidebar alone, next to a renderer that exposes
\* no geometry
SidebarNext ==
    \/ SidebarNewTab
    \/ \E id \in TabIds : SidebarTabClick(id)
    \/ \E id \in TabIds : SidebarCloseTab(id)
    \/ \E removable \in BOOLEAN : UiFetch(removable)
    \/ \E removable \in BOOLEAN : Deliver(removable)
    \/ \E i \in 1..MaxSuspended, reply \in HiddenProvider : ProviderAnswer(i, reply)
    \/ CreateTabBounds
    \/ CreateTabNew(Fraction(nextId), Fraction(0))
    \/ CreateTabEmit
    \/ SwitchFind
    \/ SwitchAttach
    \/ SwitchBounds
    \/ SwitchApply
    \/ CloseFind
    \/ CloseSplice
    \/ CloseAttach
    \/ CloseEmit

SidebarSpec == Init /\ [][SidebarNext]_vars

\* ------------------------------------------------------ settings window
\* a callback that never reuses a window
Reusable_Never(ref) == FALSE

\* settingsWindow && !settingsWindow.isDestroyed()
Reusable(ref) == ref # Null /\ windows[ref].status # "destroyed"

\* the next BrowserWindow to be constructed
FreshWindow ==
    CHOOSE w \in WindowIds \cup {MaxWindows + 1} :
        /\ \A v \in 1..(w - 1) : windows[v].status # "none"
        /\ w \in WindowIds => windows[w].status = "none"

\* openSettingsWindowCallback: focus the window there is, or create one
\* and register its 'closed' listener; the value is the window returned
\* and the windows as the callback leaves them
OpenSettingsWindowCallback ==
    IF Reusable(settingsWindow)
    THEN [win |-> settingsWindow,
          windows |-> [windows EXCEPT ![settingsWindow].focused = @ \/ windows[settingsWindow].shown]]
    ELSE [win |-> FreshWindow,
          windows |-> [windows EXCEPT ![FreshWindow] = NewWindow]]

\* the callback can run: it reuses, or a window is left to construct
CanOpen == Reusable(settingsWindow) \/ FreshWindow \in WindowIds

\* ipcMain.on('open-settings-window')
OpenSettingsWindow ==
    /\ CanOpen
    /\ settingsWindow' = OpenSettingsWindowCallback.win
    /\ windows' = OpenSettingsWindowCallback.windows
    /\ UNCHANGED <<tabs, currentTab, lastKnownBounds, attached, viewBounds, nextId, cur, susp,
                   favicon, lastReport, idOf, sidebar>>

\* ipcMain.on('minimize-settings-window')
MinimizeSettingsWindow ==
    /\ CanOpen
    /\ LET r == OpenSettingsWindowCallback
       IN /\ settingsWindow' = r.win
          /\ windows' = [r.windows EXCEPT ![r.win].minimized = TRUE,
                                          ![r.win].focused = FALSE]
    /\ UNCHANGED <<tabs, currentTab, lastKnownBounds, attached, viewBounds, nextId, cur, susp,
                   favicon, lastReport, idOf, sidebar>>

\* ipcMain.on('maximize-unmaximize-settings-window')
MaximizeUnmaximizeSettingsWindow ==
    /\ CanOpen
    /\ LET r == OpenSettingsWindowCallback
       IN /\ settingsWindow' = r.win
          /\ windows' = [r.windows EXCEPT ![r.win].maximized = ~@]
    /\ UNCHANGED <<tabs, currentTab, lastKnownBounds, attached, viewBounds, nextId, cur, susp,
                   favicon, lastReport, idOf, sidebar>>

\* ipcMain.on('close-settings-window'): BrowserWindow.close() asks the
\* window to close
CloseSettingsWindow ==
    /\ CanOpen
    /\ LET r == OpenSettingsWindowCallback
       IN /\ settingsWindow' = r.win
          /\ windows' = [r.windows EXCEPT ![r.win].closing = TRUE]
    /\ UNCHANGED <<tabs, currentTab, lastKnownBounds, attached, viewBounds, nextId, cur, susp,
                   favicon, lastReport, idOf, sidebar>>

\* 'ready-to-show' of a settings window: settingsWindow.show()
ReadyToShow(w) ==
    /\ windows[w].status = "live" /\ ~windows[w].shown
    /\ windows' = [windows EXCEPT ![w].shown = TRUE, ![w].focused = TRUE]
    /\ UNCHANGED <<tabs, currentTab, lastKnownBounds, attached, viewBounds, nextId, cur, susp,
                   favicon, lastReport, idOf, sidebar, settingsWindow>>

\* the window asked to close is closed: it is destroyed and its 'closed'
\* listener resets the shared reference
WindowClosed(w) ==
    /\ windows[w].status = "live" /\ windows[w].closing
    /\ windows' = [windows EXCEPT ![w] = DestroyedWindow]
    /\ settingsWindow' = Null
    /\ UNCHANGED <<tabs, currentTab, lastKnownBounds, attached, viewBounds, nextId, cur, susp,
                   favicon, lastReport, idOf, sidebar>>

SettingsNext ==
    \/ OpenSettingsWindow
    \/ MinimizeSettingsWindow
    \/ MaximizeUnmaximizeSettingsWindow
    \/ CloseSettingsWindow
    \/ \E w \in WindowIds : ReadyToShow(w)
    \/ \E w \in WindowIds : WindowClosed(w)

SettingsSpec == Init /\ [][SettingsNext]_vars

\* ====================================================== properties
\* the surface of the visible Tab, as a set of attached views
ActiveSurface == IF currentTab = Null THEN {} ELSE {currentTab}

\* a call of the given method has just run to its end
Done(op) == Running /\ cur.op = op /\ cur.pc = "done"

\* C1: at every instant, the intermediate steps of a switch or a close
\* included, at most one Tab's surface is attached to the host window, and
\* a surface is only ever attached to a window that has none attached
\* (detach-then-attach, never attach-then-detach)
C1_AtMostOneAttached ==
    /\ [](Cardinality(attached) <= 1)
    /\ [][attached' \ attached # {} => attached = {} /\ Cardinality(attached') = 1]_vars

\* C1 witness: in the middle of a switch between two Tabs the old surface
\* is already detached and the new one is not attached yet
C1_Witness ==
    /\ Running /\ cur.pc = "sw_attach"
    /\ currentTab # Null /\ currentTab # cur.tabId
    /\ attached = {}

\* C2: whenever no call is in the middle of its synchronous steps (also
\* while calls are suspended on a geometry query) the attached surfaces are
\* exactly the surface of the Tab named by activeTabId, or none when it is
\* null
C2_AttachedIsActive ==
    (~Running \/ Finished) => attached = ActiveSurface

\* C2 witness: a switchTab is suspended on its geometry query and the Tab
\* it activated is the attached one
C2_Witness ==
    /\ ~Running
    /\ \E i \in 1..Len(susp) : susp[i].pc = "sw_await" /\ susp[i].tabId = currentTab
    /\ attached = {currentTab}
    /\ Len(tabs) >= 2

\* C3: closing the visible Tab makes the first remaining Tab of the
\* collection the active one, and activeTabId is null exactly when the
\* collection has become empty; closing the only Tab leaves activeTabId
\* null and getTabs() empty
C3_CloseVisiblePromotesFirst ==
    (Done("closeTab") /\ cur.known /\ cur.pre.currentTab = cur.tabId) =>
        /\ tabs = Splice(cur.pre.tabs, FindIndex(cur.pre.tabs, cur.tabId))
        /\ GetActiveTabId = (IF Len(tabs) > 0 THEN tabs[1] ELSE Null)
        /\ (GetActiveTabId = Null <=> tabs = <<>>)
        /\ (Len(cur.pre.tabs) = 1 => GetActiveTabId = Null /\ GetTabs = <<>>)

\* C3 witness: the visible Tab was the last of three; the first Tab, not
\* the closed one's neighbour, has become active
C3_Witness ==
    /\ Done("closeTab") /\ cur.known /\ cur.pre.currentTab = cur.tabId
    /\ Len(cur.pre.tabs) = 3 /\ cur.pre.tabs[3] = cur.tabId
    /\ currentTab = cur.pre.tabs[1]
    /\ attached = {cur.pre.tabs[1]}


\* a step taken by a createTab call with activate = false
InactiveCreateStep ==
    \/ Running /\ cur.op = "createTab" /\ ~cur.activate
    \/ cur' # NoCall /\ cur'.op = "createTab" /\ ~cur'.activate

\* C4: createTab with activate = false appends the new Tab, and no step of
\* it changes activeTabId, attaches the new surface or detaches the
\* attached one; it emits tabs-updated and no active-tab-changed
C4_InactiveCreateFrame ==
    /\ [][InactiveCreateStep =>
            /\ currentTab' = currentTab
            /\ attached' = attached
            /\ tabs' # tabs => tabs' = Append(tabs, cur'.tabId)]_vars
    /\ [](Done("createTab") /\ ~cur.activate =>
            /\ InCollection(cur.tabId)
            /\ cur.tabId \notin attached
            /\ cur.out = <<TabsUpdated>>)

\* C4 witness: an inactive createTab has returned while another Tab is
\* the visible one
C4_Witness ==
    /\ Done("createTab") /\ ~cur.activate
    /\ currentTab # Null /\ currentTab # cur.tabId
    /\ attached = {currentTab}
    /\ tabs[Len(tabs)] = cur.tabId

\* C5 as stated: whenever createTab with activate = true returns, the new
\* Tab is the active one and its surface the attached one
C5_ActivatedAtReturn ==
    (Done("createTab") /\ cur.activate) =>
        /\ GetActiveTabId = cur.tabId
        /\ attached = {cur.tabId}

\* C5 amended: createTab with activate = true has made the new Tab active
\* and its surface the only attached one when the activation reaches its
\* geometry resolution, and it returns in that state whenever the
\* activation did not have to await a geometry query
C5_ActivatedBeforeAwait ==
    (/\ Running /\ cur.op = "createTab" /\ cur.activate
     /\ \/ cur.pc = "sw_bounds"
        \/ cur.pc = "done" /\ "sw_await" \notin cur.awaits) =>
        /\ GetActiveTabId = cur.tabId
        /\ attached = {cur.tabId}

\* C5 witness: an activating createTab that never awaited has returned;
\* the Tab that was visible before is detached
C5_Witness ==
    /\ Done("createTab") /\ cur.activate /\ cur.awaits = {}
    /\ cur.pre.currentTab # Null /\ cur.pre.attached = {cur.pre.currentTab}
    /\ cur.pre.currentTab \notin attached
    /\ currentTab = cur.tabId

\* C6: switchTab and closeTab with an id that names no Tab of the
\* collection change nothing: the collection, activeTabId, the attached
\* surface and lastKnownBounds stay as they were, no geometry query is
\* made and no event is emitted
C6_UnknownIdNoOp ==
    (Running /\ cur.op \in {"switchTab", "closeTab"} /\ ~cur.known) =>
        /\ Snapshot = cur.pre
        /\ cur.awaits = {}
        /\ cur.out = <<>>
        /\ cur.pc \in {"sw_find", "cl_find", "done"}

\* C6 witness: a call with an unknown id has returned while Tabs exist and
\* one of them is visible
C6_Witness ==
    /\ Running /\ cur.op \in {"switchTab", "closeTab"} /\ ~cur.known
    /\ cur.pc = "done"
    /\ currentTab # Null /\ lastKnownBounds # NullBounds

\* C7: right after switchTab has emitted active-tab-changed, the payload is
\* the id it was called with and that Tab is the active one and is in the
\* collection
C7_EventNamesActiveTab ==
    (/\ Running /\ cur.op \in {"switchTab", "createTab"}
     /\ cur.pc = AfterSwitch(cur)
     /\ cur.out # <<>> /\ cur.out[Len(cur.out)].name = "active-tab-changed") =>
        /\ cur.out[Len(cur.out)].id = cur.tabId
        /\ GetActiveTabId = cur.out[Len(cur.out)].id
        /\ InCollection(cur.tabId)

\* C8: closeTab of a Tab of the collection emits exactly one tabs-updated
\* and then exactly one active-tab-changed carrying the id of the Tab
\* active after the close, or null; when the closed Tab was not the
\* visible one that id is the unchanged active id
C8_CloseEmitsBoth ==
    (Done("closeTab") /\ cur.known) =>
        /\ cur.out = <<TabsUpdated, ActiveTabChanged(GetActiveTabId)>>
        /\ cur.pre.currentTab # cur.tabId => currentTab = cur.pre.currentTab

\* C8 witness: a Tab other than the visible one has been closed
C8_Witness ==
    /\ Done("closeTab") /\ cur.known
    /\ cur.pre.currentTab # Null /\ cur.pre.currentTab # cur.tabId
    /\ Len(cur.out) = 2

\* C9: a createTab call that has come to its end has emitted tabs-updated
C9_CreateEmitsTabsUpdated ==
    (Running /\ cur.op = "createTab" /\ Finished) =>
        \E i \in 1..Len(cur.out) : cur.out[i] = TabsUpdated

\* C10: after update-webview-bounds with rectangle R, lastKnownBounds is R
\* whether or not a Tab is active, and an active Tab's surface is at R
C10_ReportUpdatesCache ==
    Done("update-webview-bounds") =>
        /\ lastKnownBounds = cur.b
        /\ currentTab # Null => viewBounds[currentTab] = cur.b


\* a createTab call that has just constructed its Tab (or has also
\* activated it without awaiting)
Constructed ==
    /\ Running /\ cur.op = "createTab"
    /\ cur.tabId # Null /\ cur.pc \in {"sw_find", "ct_emit"}

\* C11 as stated: once update-webview-bounds with rectangle R has been
\* received while a Tab was active, every Tab created by a later createTab
\* (no other bounds report in between) is positioned at R at creation, not
\* at the window's content rectangle, and no geometry query is made for it
C11_CacheReuse ==
    (Constructed /\ cur.reported # NullBounds /\ lastReport = cur.reported) =>
        /\ viewBounds[cur.tabId] = cur.reported
        /\ cur.awaits = {}

\* C11 amended: the Tab is positioned at R as long as lastKnownBounds still
\* is R when createTab is called (a valid answer to a query that was in
\* flight replaces it, like the next report does); and a createTab called
\* after such a report never suspends on a geometry query
C11_CacheReuseWhileCached ==
    /\ []((Constructed /\ cur.reported # NullBounds
             /\ cur.pre.lastKnownBounds = cur.reported) =>
            /\ viewBounds[cur.tabId] = cur.reported
            /\ cur.awaits = {})
    /\ [][(Running /\ cur.op = "createTab" /\ cur.reported # NullBounds
             /\ cur' = NoCall) => Finished]_vars

\* C11 witness: with a Tab active and R reported, an inactive createTab
\* has constructed its Tab at R, which is not the content rectangle
C11_Witness ==
    /\ Constructed /\ ~cur.activate
    /\ cur.reported # NullBounds /\ cur.pre.lastKnownBounds = cur.reported
    /\ currentTab # Null /\ currentTab # cur.tabId
    /\ viewBounds[cur.tabId] = cur.reported
    /\ viewBounds[cur.tabId] # ContentFallback


\* the rectangle the three-tier fallback yields for a call that has read
\* the cache and, if it had to, got the answer to its query at `site`
ThreeTier(c, site, cacheRead) ==
    IF site \notin c.awaits THEN cacheRead
    ELSE IF ValidBounds(c.reply) THEN c.reply.val
    ELSE Rect(0, 0, ContentBounds.width, ContentBounds.height)

\* a switchTab (or the one inside createTab) has just applied its geometry
Applied ==
    /\ Running /\ cur.op \in {"switchTab", "createTab"}
    /\ cur.pc = AfterSwitch(cur)
    /\ cur.out # <<>> /\ cur.out[Len(cur.out)].name = "active-tab-changed"

Promoted ==
    /\ Running /\ cur.op = "closeTab" /\ cur.pc \in {"cl_emit", "done"}
    /\ cur.known /\ cur.pre.currentTab = cur.tabId
    /\ currentTab # Null

\* C13: the promotion in closeTab positions the replacement at the same
\* rectangle, and leaves lastKnownBounds with the same value, as
\* switchTab(replacement) does from the same cache and window rectangle,
\* whatever the provider answers
C13_PromotionLikeSwitch ==
    Promoted =>
        \A reply \in ProviderReplies :
            [rect |-> viewBounds[currentTab], cache |-> lastKnownBounds]
                = SwitchGeometry(cur.pre.lastKnownBounds, reply)


\* C14: a createTab call that has come to its end has completed: its Tab
\* was appended and the call returned
C14_CreateTabCompletes ==
    (Running /\ cur.op = "createTab" /\ Finished) =>
        /\ cur.pc = "done"
        /\ cur.tabId # Null

\* the running call got an unusable answer (throw, null, non-numeric field)
\* to the query it awaited at `site`
Unanswered(site) ==
    /\ Running /\ cur.op \in {"createTab", "switchTab"}
    /\ site \in cur.awaits
    /\ cur.reply # NoReply /\ ~ValidBounds(cur.reply)

\* C15: when the query throws, rejects, returns null or an object with a
\* non-numeric field, createTab and switchTab raise no error, leave
\* lastKnownBounds unchanged and complete with the content rectangle
C15_UnavailableAbsorbed ==
    /\ [][(~Running /\ Running' /\ cur'.reply # NoReply /\ ~ValidBounds(cur'.reply)) =>
            lastKnownBounds' = lastKnownBounds]_vars
    /\ []((Unanswered("ct_await") /\ Constructed /\ cur.pc = "sw_find") =>
            viewBounds[cur.tabId] = ContentFallback)
    /\ []((Unanswered("sw_await") /\ Applied) =>
            viewBounds[currentTab] = ContentFallback)
    /\ []((Unanswered("ct_await") \/ Unanswered("sw_await")) => cur.pc # "fault")


\* the Tabs constructed so far, and those of them that left the collection
Created == 1..(nextId - 1)
Closed == {t \in Created : ~InCollection(t)}

\* C16: no two Tabs of the collection have the same id, and the id of a
\* closed Tab is never the id of a Tab created after it
C16_UniqueIds ==
    /\ \A i, j \in 1..Len(tabs) : i # j => idOf[tabs[i]] # idOf[tabs[j]]
    /\ \A t \in Closed : \A u \in Created : t < u => idOf[t] # idOf[u]

\* an event of a Tab's surface has just been handled
Handled(kind) == Running /\ cur.op = kind /\ cur.pc = "done"

\* C17: every navigation event (did-navigate, did-finish-load), every
\* title-change event and every icon-change event of a Tab's surface
\* causes one tab-info-updated event carrying that Tab's id
C17_SurfaceEventsForwarded ==
    \A kind \in SurfaceEvents :
        Handled(kind) => cur.out = <<TabInfoUpdated(cur.tabId)>>

\* C18: once closeTab(id) has completed for an id of the collection, the
\* Tab is not in the collection, its surface is not attached to the host
\* window, and no tab-info-updated event carrying id is emitted any more
C18_ClosedTabGone ==
    /\ (Done("closeTab") /\ cur.known) => cur.tabId \in Closed
    /\ \A t \in Closed : t \notin attached
    /\ \A kind \in SurfaceEvents :
           (Handled(kind) /\ cur.tabId \in Closed) =>
               TabInfoUpdated(cur.tabId) \notin {cur.out[i] : i \in 1..Len(cur.out)}


\* a switchTab call invoked on the Tab that was the visible one
Revisit(c) == c # NoCall /\ c.op = "switchTab" /\ c.wasVisible

\* C19: switchTab(id) on the Tab that is already visible detaches and
\* attaches nothing, leaves activeTabId and the collection as they are,
\* applies the geometry it resolved to that Tab, and a second call with the
\* same provider answer would change nothing any more
C19_RevisitIsFastPath ==
    /\ [][Revisit(cur') => UNCHANGED <<attached, currentTab, tabs>>]_vars
    /\ []((Revisit(cur) /\ Finished) =>
            /\ cur.pc = "done"
            /\ viewBounds[cur.tabId] = cur.b
            /\ SwitchGeometry(lastKnownBounds, cur.reply)
                   = [rect |-> viewBounds[cur.tabId], cache |-> lastKnownBounds])


\* the sequence without the Tab named id, the others in their order
Without(seq, id) ==
    LET Keep(t) == t # id IN SelectSeq(seq, Keep)

\* C20: the collection keeps creation order: it changes only when createTab
\* appends its new Tab at the end and when closeTab takes out the closed
\* Tab and nothing else, the others keeping their order; switchTab never
\* changes it, and getTabs() lists the Tabs in that order
C20_CreationOrder ==
    /\ [][tabs' # tabs =>
            \/ /\ cur'.op = "createTab"
               /\ cur'.tabId = nextId /\ nextId' = nextId + 1
               /\ tabs' = Append(tabs, cur'.tabId)
            \/ /\ cur'.op = "closeTab"
               /\ InCollection(cur'.tabId)
               /\ tabs' = Without(tabs, cur'.tabId)]_vars
    /\ [](\A i, j \in 1..Len(tabs) : i < j => tabs[i] < tabs[j])
    /\ []([i \in 1..Len(tabs) |-> GetTabs[i].id] = tabs)

\* C20 witness: the middle one of three Tabs was closed and the two others
\* are listed in the order of their creation
C20_Witness ==
    /\ Done("closeTab")
    /\ cur.pre.tabs = <<1, 2, 3>>
    /\ tabs = <<1, 3>>
    /\ GetTabs[1].id = 1 /\ GetTabs[2].id = 3


\* a switchTab call waiting for the Geometry Provider's answer
Stalled(c) == c.op = "switchTab" /\ c.pc = "sw_await"

\* C21: a switchTab(id) that found the cache empty suspends after its state
\* change: at that moment id is the active Tab (getActiveTabId() returns
\* id) and its surface is attached, the call has applied no geometry and
\* emitted no event, and as long as the provider does not answer the call
\* stays as it is: nothing but the answer makes it apply geometry or emit
\* active-tab-changed
C21_StallAfterStateChange ==
    /\ [][(Running /\ cur.op = "switchTab" /\ Len(susp') = Len(susp) + 1) =>
            /\ lastKnownBounds = NullBounds
            /\ currentTab' = cur.tabId /\ GetActiveTabId' = cur.tabId
            /\ cur.tabId \in attached'
            /\ viewBounds' = viewBounds]_vars
    /\ [][(Running /\ cur.op = "switchTab" /\ cur.awaits = {} /\ cur.pc # "sw_apply") =>
            viewBounds' = viewBounds]_vars
    /\ [](\A i \in 1..Len(susp) : Stalled(susp[i]) =>
            susp[i].out = <<>> /\ susp[i].b = NullBounds)
    /\ [][\A i \in 1..Len(susp) : Stalled(susp[i]) =>
            \/ \E j \in 1..Len(susp') : susp'[j] = susp[i]
            \/ /\ ~Running /\ cur'.reply # NoReply
               /\ cur' = [susp[i] EXCEPT !.pc = "sw_apply", !.reply = cur'.reply,
                                         !.b = cur'.b]]_vars

\* C21 witness: a switchTab is stalled on its query while its Tab is the
\* active one and attached, and a later call has already come and gone
C21_Witness ==
    /\ ~Running /\ nextId > 2
    /\ \E i \in 1..Len(susp) :
          /\ Stalled(susp[i])
          /\ currentTab = susp[i].tabId /\ GetActiveTabId = susp[i].tabId
          /\ attached = {susp[i].tabId}


\* the payload of the latest active-tab-changed event of the call c, which
\* has emitted one
EmittedActive(c) == \E i \in 1..Len(c.out) : c.out[i].name = "active-tab-changed"
LastActivePayload(c) ==
    LET last == CHOOSE i \in 1..Len(c.out) :
                    /\ c.out[i].name = "active-tab-changed"
                    /\ \A j \in (i + 1)..Len(c.out) : c.out[j].name # "active-tab-changed"
    IN c.out[last].id

\* C22: once no call is in flight any more, the payload of the most
\* recently emitted active-tab-changed event is getActiveTabId(); stated
\* for the call that ends last, whose event is then the most recent one
C22_ActiveViewConverges ==
    (Finished /\ susp = <<>> /\ EmittedActive(cur)) =>
        LastActivePayload(cur) = GetActiveTabId

\* C25: a switchTab (or the switchTab inside createTab) resumed from its
\* geometry query finds a current Tab, applies its geometry to it and ends
\* without an error
C25_SwitchNeverFaults ==
    (Running /\ cur.op \in {"switchTab", "createTab"} /\ "sw_await" \in cur.awaits) =>
        /\ cur.pc # "fault"
        /\ cur.pc = "sw_apply" => currentTab # Null
        /\ cur.pc = AfterSwitch(cur) => currentTab # Null /\ viewBounds[currentTab] = cur.b


\* C26: in every state activeTabId is null or the id of a Tab of the
\* collection; no interleaving of createTab, switchTab and closeTab leaves
\* a closed Tab as the active one
C26_ActiveIsOpen ==
    /\ currentTab # Null => InCollection(currentTab)
    /\ GetActiveTabId # Null => \E i \in 1..Len(GetTabs) : GetTabs[i].id = GetActiveTabId
    /\ currentTab \notin Closed

\* C26 witness: a switchTab resumed after its Tab was closed has run to its
\* end, and the active Tab is another one, which is open
C26_Witness ==
    /\ Done("switchTab") /\ "sw_await" \in cur.awaits
    /\ cur.tabId \in Closed
    /\ currentTab # Null /\ InCollection(currentTab)


\* C28: whenever no operation is in flight, a Tab is active and
\* lastKnownBounds is not null, the active Tab's surface is at
\* lastKnownBounds
C28_SurfaceAtCache ==
    (~Running /\ susp = <<>> /\ currentTab # Null /\ lastKnownBounds # NullBounds) =>
        viewBounds[currentTab] = lastKnownBounds


\* C29: once lastKnownBounds is not null no step sets it back to null, no
\* call suspends on a geometry query any more, and a createTab, switchTab
\* or closeTab invoked from then on runs to its end in one piece, without
\* an await and without an error
C29_CacheStaysDefined ==
    /\ [][lastKnownBounds # NullBounds =>
            /\ lastKnownBounds' # NullBounds
            /\ Len(susp') <= Len(susp)]_vars
    /\ []((Running /\ cur.op \in {"createTab", "switchTab", "closeTab"}
              /\ cur.pre.lastKnownBounds # NullBounds) =>
            cur.awaits = {} /\ cur.pc # "fault")
    /\ [][(Running /\ cur.op \in {"createTab", "switchTab", "closeTab"}
              /\ lastKnownBounds # NullBounds /\ ~Finished) => Running']_vars

\* C29 witness: with the cache set, a switchTab to another Tab has run to
\* its end without awaiting
C29_Witness ==
    /\ Done("switchTab") /\ cur.known
    /\ cur.pre.lastKnownBounds # NullBounds
    /\ cur.pre.currentTab # cur.tabId /\ currentTab = cur.tabId
    /\ cur.awaits = {}


\* C27: with create-tab always activating, in every state between two
\* commands (no call running; calls may be suspended on their query) a
\* non-empty collection has an active Tab
C27_OpenImpliesActive ==
    (~Running \/ Finished) =>
        (tabs # <<>> => currentTab # Null /\ GetActiveTabId # Null)

\* C27 witness: between two commands, after the active Tab was closed while
\* another remained, a Tab is active although a call is still suspended
C27_Witness ==
    /\ Done("closeTab") /\ cur.known
    /\ cur.pre.currentTab = cur.tabId
    /\ tabs # <<>> /\ currentTab # Null
    /\ susp # <<>>


\* C23: the Sidebar never sends close-tab for the only Tab of the
\* collection, so that with the Sidebar as the only source of commands the
\* collection never goes from non-empty to empty
C23_LastTabKept ==
    /\ [][(~Running /\ cur'.op = "closeTab") =>
            ~(Len(tabs) = 1 /\ tabs[1] = cur'.tabId)]_vars
    /\ [][tabs # <<>> => tabs' # <<>>]_vars

\* C24: however often the effect has run again, the Sidebar has exactly one
\* listener on each of tabs-updated, active-tab-changed and
\* tab-info-updated
C24_OneListenerEach ==
    \A e \in ForwardedEvents : sidebar.listeners[e] = 1


\* the settings windows that exist
LiveWindows == {w \in WindowIds : windows[w].status = "live"}

\* C30: at most one settings window is live at any time; the commands
\* reuse the live window, a new one is created only when none is live, and
\* the shared reference is null again once the window is closed
C30_OneSettingsWindow ==
    /\ [](Cardinality(LiveWindows) <= 1)
    /\ [](LiveWindows = IF settingsWindow = Null THEN {} ELSE {settingsWindow})
    /\ [][LiveWindows # {} => LiveWindows' \subseteq LiveWindows]_vars
    /\ [][LiveWindows' \ LiveWindows # {} =>
            /\ settingsWindow = Null \/ windows[settingsWindow].status = "destroyed"
            /\ LiveWindows' = {settingsWindow'}]_vars
    /\ [][LiveWindows \ LiveWindows' # {} => settingsWindow' = Null]_vars

\* C30 witness: a first settings window was closed and a second one,
\* created by a later command, is the live and referenced one
C30_Witness ==
    /\ windows[1].status = "destroyed"
    /\ settingsWindow = 2 /\ LiveWindows = {2}
    /\ windows[2].minimized

====
